---- MODULE Spec2Model ----
(***************************************************************************)
(* Admission, scheduling and resilience core of the multi-tenant GenAI     *)
(* platform: the two-level priority queue, the fair scheduler and the      *)
(* worker pool (app/services/scheduler.py), the RAG pipeline with its      *)
(* tenant-isolation check (app/services/rag_service.py,                    *)
(* retrieval_service.py, governance_service.py) and the circuit breaker    *)
(* and retry wrappers (app/core/resilience.py).                            *)
(***************************************************************************)
EXTENDS Integers, Sequences, FiniteSets, TLC

(***************************************************************************)
(* Part 1 - queue, scheduler, workers.                                     *)
(*                                                                         *)
(* Every pod runs one asyncio event loop.  The coroutines of scheduler.py  *)
(* await nothing but each other and the Redis client is the synchronous    *)
(* one, so inside a pod a call of enqueue, schedule_next or check_timeout  *)
(* runs to its end before any other coroutine of that pod runs.  Pods are  *)
(* separate processes: their Redis commands on the shared keys (the global *)
(* queue and the DLQ) interleave command by command.  podpc records where  *)
(* a pod stands between two of its commands on the shared keys.            *)
(*                                                                         *)
(* A queue item is the JSON text of a QueuedRequest; the model names an    *)
(* item by its request id and keeps the fields the code reads back         *)
(* (tenant_id, priority, submitted_at) in req.  The payload encoding is    *)
(* taken to give back the fields that were put in.                         *)
(***************************************************************************)

\* settings.MAX_INFLIGHT_PER_POD, MAX_QUEUE_DEPTH, WORKER_POOL_SIZE and
\* QUEUE_TIMEOUT_SEC are read from the environment; the model runs a small
\* deployment.
MAX_INFLIGHT_PER_POD == 4
MAX_QUEUE_DEPTH == 1
WORKER_POOL_SIZE == 2
QUEUE_TIMEOUT_SEC == 30

\* Bounds of the model: the requests submitted to one pod running alone
\* (SpecPod) and to the two pods together (Spec), and the clock.
NumRequests == 5
NumSharedRequests == 3
ClockStep == 31
MaxClock == 31

Pods == {"pod1", "pod2"}
Workers == 1..WORKER_POOL_SIZE
Requests == 1..NumRequests
Tenants == {"A", "B"}
None == "None"

\* The tier of each tenant (tenant_tier argument of enqueue).
TenantTier(t) == IF t = "A" THEN "ENTERPRISE" ELSE "PROFESSIONAL"

TierOrder == <<"ENTERPRISE", "PROFESSIONAL", "STARTER", "FREE">>

\* RequestPriority: lower = higher priority.
RequestPriority(tier) ==
  CASE tier = "ENTERPRISE" -> 0
    [] tier = "PROFESSIONAL" -> 1
    [] tier = "STARTER" -> 2
    [] tier = "FREE" -> 3

\* FairScheduler.FAIR_SHARES, in percent.
FAIR_SHARES(tier) ==
  CASE tier = "ENTERPRISE" -> 50
    [] tier = "PROFESSIONAL" -> 30
    [] tier = "STARTER" -> 15
    [] tier = "FREE" -> 5

\* priority_score = tier_priority * 1e9 + timestamp.  Timestamps of the
\* model are offsets from a common epoch, all far below the weight.
TierScoreWeight == 1000000
PriorityScore(priority, timestamp) == priority * TierScoreWeight + timestamp

VARIABLES
  now,                 \* wall clock, seconds
  req,                 \* request id -> the fields of its QueuedRequest, or NoReq
  local,               \* pod -> its local list (index 1 is the head, LPUSH side)
  global,              \* members of the shared sorted set
  dlq,                 \* the shared dead-letter list (index 1 is the head)
  in_flight_requests,  \* pod -> FairScheduler.in_flight_requests (tenant -> count)
  total_in_flight,     \* pod -> FairScheduler.total_in_flight
  wstate,              \* pod -> worker -> "idle" | "busy"
  wcur,                \* pod -> worker -> the request it processes, or None
  podpc,               \* pod -> the call in progress between two Redis commands
  dispatched,          \* request id -> times schedule_next returned it
  timed_out_requests,  \* pod -> the list its last check_timeout built
  swept,               \* pod -> when its last check_timeout ran and what was queued
  running,             \* pod -> AsyncWorkerPool.running
  stop_call,           \* pod -> where AsyncWorkerPool.stop stands and how long it waited
  cancelled            \* the requests whose worker task was cancelled

sweepVars == <<timed_out_requests, swept>>
stopVars == <<running, stop_call, cancelled>>

schedVars == <<now, req, local, global, dlq, in_flight_requests, total_in_flight,
               wstate, wcur, podpc, dispatched, sweepVars, stopVars>>

VARIABLES
  rag_pc,            \* where generate_response stands
  rag_tenant,        \* tenant_id of the request
  rag_hits,          \* what the two backends answered: <<bm25, vector>>
  rag_docs,          \* docs = hybrid_retrieve(...)
  rag_response,      \* the docs returned with the answer
  rag_error,         \* the exception generate_response raised, or "none"
  leakage_attempts,  \* metrics.cross_tenant_leakage_attempts
  llm_calls          \* calls of _call_llm

ragVars == <<rag_pc, rag_tenant, rag_hits, rag_docs, rag_response, rag_error,
             leakage_attempts, llm_calls>>

VARIABLES
  res_epoch,      \* idle periods of reset_timeout passed so far
  tenant_states,  \* service -> TenantAwareCircuitBreaker.tenant_states (key -> breaker)
  res_call,       \* the call in progress, or the last one
  res_calls,      \* calls begun
  failed_calls,   \* site -> tenant -> failed calls through the breaker in a row
  failed_epoch,   \* site -> tenant -> epoch of the last of them
  used_key        \* site -> tenant -> key of the breaker the last call used

resVars == <<res_epoch, tenant_states, res_call, res_calls, failed_calls, failed_epoch,
             used_key>>

VARIABLES
  capacity,          \* TokenBucket.capacity, or NoBucket before the bucket is made
  refill_rate,       \* TokenBucket.refill_rate, tokens per second
  tokens,            \* TokenBucket.tokens, in tenths of a token
  last_refill_time,  \* TokenBucket.last_refill_time, or NoTime
  bucket_now,        \* time.time(), in tenths of a second
  last_result,       \* what the last try_consume returned
  burst_admitted,    \* calls admitted since time last passed
  burst_budget,      \* whole tokens the bucket held when time last passed
  total_admitted     \* calls admitted in all

bucketVars == <<capacity, refill_rate, tokens, last_refill_time, bucket_now,
                last_result, burst_admitted, burst_budget, total_admitted>>

VARIABLES
  cache_store,  \* the Redis keys of the cache: key -> the tenant whose value it holds
  cache_op      \* the last cache call and what it returned

cacheVars == <<cache_store, cache_op>>

VARIABLES
  screen_query,  \* the query text of the request, a sequence of characters
  query_words,   \* words put in it so far
  screen_result  \* what each screen answered for it, or NotScreened

screenVars == <<screen_query, query_words, screen_result>>

VARIABLES
  loader_env,   \* ConfigLoader.env, or "none" before the loader is made
  defined,      \* the <<source, key>> pairs that hold a value
  config,       \* ConfigLoader.config: key -> the source its value came from
  loaded        \* load_settings has returned

configVars == <<loader_env, defined, config, loaded>>

VARIABLES
  rate_now,         \* time.time() as the middleware reads it
  request_counts,   \* RateLimitMiddleware.request_counts: tenant_id -> timestamps
  passed,           \* per tenant, the times at which call_next was called
  rate_response     \* the answer to the last request

rateVars == <<rate_now, request_counts, passed, rate_response>>

\* What the actions of one part leave alone.
notSched == <<ragVars, resVars, bucketVars, cacheVars, screenVars, configVars, rateVars>>
notRag == <<schedVars, resVars, bucketVars, cacheVars, screenVars, configVars, rateVars>>
notRes == <<schedVars, ragVars, bucketVars, cacheVars, screenVars, configVars, rateVars>>
notBucket == <<schedVars, ragVars, resVars, cacheVars, screenVars, configVars, rateVars>>
notCache == <<schedVars, ragVars, resVars, bucketVars, screenVars, configVars, rateVars>>
notConfig == <<schedVars, ragVars, resVars, bucketVars, cacheVars, screenVars, rateVars>>
notRate == <<schedVars, ragVars, resVars, bucketVars, cacheVars, screenVars, configVars>>
notScreen == <<schedVars, ragVars, resVars, bucketVars, cacheVars, configVars, rateVars>>

NoReq == [tenant_id |-> "", priority |-> -1, submitted_at |-> -1]
NeverSwept == [at |-> -1, queued |-> {}]
NotStopping == [pc |-> "none", waited |-> 0]
IdlePc == [op |-> "idle", tier |-> 0, worker |-> 0, peek |-> None, snap |-> <<>>]

InitSched ==
  /\ now = 0
  /\ req = [r \in Requests |-> NoReq]
  /\ local = [p \in Pods |-> <<>>]
  /\ global = {}
  /\ dlq = <<>>
  /\ in_flight_requests = [p \in Pods |-> <<>>]
  /\ total_in_flight = [p \in Pods |-> 0]
  /\ wstate = [p \in Pods |-> [w \in Workers |-> "idle"]]
  /\ wcur = [p \in Pods |-> [w \in Workers |-> None]]
  /\ podpc = [p \in Pods |-> IdlePc]
  /\ dispatched = [r \in Requests |-> 0]
  /\ timed_out_requests = [p \in Pods |-> <<>>]
  /\ swept = [p \in Pods |-> NeverSwept]
  /\ running = [p \in Pods |-> TRUE]
  /\ stop_call = [p \in Pods |-> NotStopping]
  /\ cancelled = {}

\* The list check_timeout returned lives until the pod's next call.
ForgetSweep(p) ==
  /\ timed_out_requests' = [timed_out_requests EXCEPT ![p] = <<>>]
  /\ swept' = [swept EXCEPT ![p] = NeverSwept]

Submitted(r) == req[r] # NoReq
Score(r) == PriorityScore(req[r].priority, req[r].submitted_at)

\* ZRANGE key 0 0: the member of least score; equal scores are ordered by
\* the member text, which begins with the request id.
ZRangeFirst(zs) ==
  CHOOSE r \in zs : \A q \in zs : Score(r) < Score(q) \/ (Score(r) = Score(q) /\ r <= q)

RECURSIVE ZRangeAll(_)
ZRangeAll(zs) ==
  IF zs = {} THEN <<>>
  ELSE LET r == ZRangeFirst(zs) IN <<r>> \o ZRangeAll(zs \ {r})

\* LREM key 1 item: drop the first occurrence from the head.
RECURSIVE LRem(_, _)
LRem(list, item) ==
  IF list = <<>> THEN <<>>
  ELSE IF Head(list) = item THEN Tail(list)
  ELSE <<Head(list)>> \o LRem(Tail(list), item)

\* PriorityQueue.enqueue on pod p for a request of tenant t; the request
\* ids are handed out in order, up to limit.
\* A local list that takes one item more than MAX_QUEUE_DEPTH.
LocalHasRoomInclusive(p) == Len(local[p]) <= MAX_QUEUE_DEPTH

\* local_depth < settings.MAX_QUEUE_DEPTH
LocalHasRoom(p) == Len(local[p]) < MAX_QUEUE_DEPTH

Enqueue(p, t, limit) ==
  /\ podpc[p].op = "idle"
  /\ \E r \in 1..limit :
       /\ ~Submitted(r)
       /\ \A q \in Requests : q < r => Submitted(q)
       /\ req' = [req EXCEPT ![r] = [tenant_id |-> t,
                                     priority |-> RequestPriority(TenantTier(t)),
                                     submitted_at |-> now]]
       /\ IF LocalHasRoom(p)
            THEN /\ local' = [local EXCEPT ![p] = <<r>> \o @]
                 /\ UNCHANGED global
            ELSE /\ global' = global \cup {r}
                 /\ UNCHANGED local
  /\ UNCHANGED <<now, dlq, in_flight_requests, total_in_flight, wstate, wcur,
                 podpc, dispatched>>
  /\ ForgetSweep(p)
  /\ UNCHANGED stopVars
  /\ UNCHANGED notSched

\* The capacity with the share taken as a factor and not as a percentage:
\* a capacity that bounds nothing.
MaxCapacityPercentAsFactor(tier) == MAX_INFLIGHT_PER_POD * FAIR_SHARES(tier)

\* max_capacity = int(MAX_INFLIGHT_PER_POD * fair_share)
MaxCapacity(tier) == (MAX_INFLIGHT_PER_POD * FAIR_SHARES(tier)) \div 100

RECURSIVE SumCounts(_, _)
SumCounts(m, ks) ==
  IF ks = {} THEN 0
  ELSE LET k == CHOOSE x \in ks : TRUE IN m[k] + SumCounts(m, ks \ {k})

\* FairScheduler._get_in_flight_for_tier: the tier is not used, every
\* tenant's count is added.
GetInFlightForTier(m, tier) == SumCounts(m, DOMAIN m)

\* FairScheduler._add_in_flight / _remove_in_flight on the tenant map.
\* FairScheduler._add_in_flight, the per-tenant part
AddInFlight(m, t) ==
  IF t \in DOMAIN m THEN [m EXCEPT ![t] = @ + 1] ELSE m @@ (t :> 1)

\* A removal that deletes the entry only once it is below zero.
RemoveInFlightKeepsZero(m, t) ==
  IF t \in DOMAIN m
    THEN IF m[t] - 1 < 0
           THEN [k \in (DOMAIN m) \ {t} |-> m[k]]
           ELSE [m EXCEPT ![t] = @ - 1]
    ELSE m

\* FairScheduler._remove_in_flight, the per-tenant part
RemoveInFlight(m, t) ==
  IF t \in DOMAIN m
    THEN IF m[t] - 1 <= 0
           THEN [k \in (DOMAIN m) \ {t} |-> m[k]]
           ELSE [m EXCEPT ![t] = @ - 1]
    ELSE m

Max(a, b) == IF a >= b THEN a ELSE b

\* schedule_next hands request r to worker w of pod p.
Dispatch(p, w, r) ==
  /\ in_flight_requests' =
       [in_flight_requests EXCEPT ![p] = AddInFlight(@, req[r].tenant_id)]
  /\ total_in_flight' = [total_in_flight EXCEPT ![p] = @ + 1]
  /\ wstate' = [wstate EXCEPT ![p][w] = "busy"]
  /\ wcur' = [wcur EXCEPT ![p][w] = r]
  /\ dispatched' = [dispatched EXCEPT ![r] = @ + 1]
  /\ podpc' = [podpc EXCEPT ![p] = IdlePc]

\* _worker_loop while self.running: an idle worker calls schedule_next.
\* schedule_next, first part: get_queue_depth (LLEN local, ZCARD global).
\* With nothing queued it returns None and the worker sleeps.
SchedBegin(p, w) ==
  /\ running[p]
  /\ podpc[p].op = "idle"
  /\ wstate[p][w] = "idle"
  /\ IF Len(local[p]) + Cardinality(global) = 0
       THEN UNCHANGED podpc
       ELSE podpc' = [podpc EXCEPT ![p] = [IdlePc EXCEPT !.op = "tier", !.tier = 1,
                                                          !.worker = w]]
  /\ UNCHANGED <<now, req, local, global, dlq, in_flight_requests, total_in_flight,
                 wstate, wcur, dispatched>>
  /\ ForgetSweep(p)
  /\ UNCHANGED stopVars
  /\ UNCHANGED notSched

\* The step of the tier loop to take after tier i gave nothing.
NextTier(p) ==
  IF podpc[p].tier < Len(TierOrder)
    THEN [podpc EXCEPT ![p].tier = @ + 1]
    ELSE [podpc EXCEPT ![p] = IdlePc]

\* schedule_next, one turn of the tier loop: the capacity test, then
\* dequeue's RPOP on the local list and, if that is empty, ZRANGE 0 0.
SchedTier(p) ==
  /\ podpc[p].op = "tier"
  /\ LET tier == TierOrder[podpc[p].tier]
         w == podpc[p].worker
     IN IF GetInFlightForTier(in_flight_requests[p], tier) < MaxCapacity(tier)
          THEN IF local[p] # <<>>
                 THEN /\ local' = [local EXCEPT ![p] = SubSeq(@, 1, Len(@) - 1)]
                      /\ Dispatch(p, w, local[p][Len(local[p])])
                      /\ UNCHANGED <<now, req, global, dlq>>
                 ELSE IF global # {}
                   THEN /\ podpc' = [podpc EXCEPT ![p].op = "zrem",
                                                  ![p].peek = ZRangeFirst(global)]
                        /\ UNCHANGED <<now, req, local, global, dlq, in_flight_requests,
                                       total_in_flight, wstate, wcur, dispatched>>
                   ELSE /\ podpc' = NextTier(p)
                        /\ UNCHANGED <<now, req, local, global, dlq, in_flight_requests,
                                       total_in_flight, wstate, wcur, dispatched>>
          ELSE /\ podpc' = NextTier(p)
               /\ UNCHANGED <<now, req, local, global, dlq, in_flight_requests,
                              total_in_flight, wstate, wcur, dispatched>>
  /\ ForgetSweep(p)
  /\ UNCHANGED stopVars
  /\ UNCHANGED notSched

\* dequeue's ZREM of the member ZRANGE returned; the request is returned
\* whether or not the member was still there.
SchedZrem(p) ==
  /\ podpc[p].op = "zrem"
  /\ global' = global \ {podpc[p].peek}
  /\ Dispatch(p, podpc[p].worker, podpc[p].peek)
  /\ UNCHANGED <<now, req, local, dlq>>
  /\ ForgetSweep(p)
  /\ UNCHANGED stopVars
  /\ UNCHANGED notSched

\* _worker_loop: the processor callback returns; _remove_in_flight.
Complete(p, w) ==
  /\ podpc[p].op = "idle"
  /\ wstate[p][w] = "busy"
  /\ in_flight_requests' =
       [in_flight_requests EXCEPT ![p] = RemoveInFlight(@, req[wcur[p][w]].tenant_id)]
  /\ total_in_flight' = [total_in_flight EXCEPT ![p] = Max(0, @ - 1)]
  /\ wstate' = [wstate EXCEPT ![p][w] = "idle"]
  /\ wcur' = [wcur EXCEPT ![p][w] = None]
  /\ UNCHANGED <<now, req, local, global, dlq, podpc, dispatched>>
  /\ ForgetSweep(p)
  /\ UNCHANGED stopVars
  /\ UNCHANGED notSched

\* _worker_loop: the processor callback raises; the except branch logs,
\* sleeps and loops, and _remove_in_flight is not reached.
Fail(p, w) ==
  /\ podpc[p].op = "idle"
  /\ wstate[p][w] = "busy"
  /\ wstate' = [wstate EXCEPT ![p][w] = "idle"]
  /\ wcur' = [wcur EXCEPT ![p][w] = None]
  /\ UNCHANGED <<now, req, local, global, dlq, in_flight_requests, total_in_flight,
                 podpc, dispatched>>
  /\ ForgetSweep(p)
  /\ UNCHANGED stopVars
  /\ UNCHANGED notSched

\* A sweep that also takes the requests that waited exactly the timeout.
ExpiredInclusive(r, threshold) == req[r].submitted_at <= threshold

Expired(r, threshold) == req[r].submitted_at < threshold

\* The items of a list that check_timeout moves, in list order.
RECURSIVE ExpiredOf(_, _)
ExpiredOf(list, threshold) ==
  IF list = <<>> THEN <<>>
  ELSE IF Expired(Head(list), threshold)
         THEN <<Head(list)>> \o ExpiredOf(Tail(list), threshold)
         ELSE ExpiredOf(Tail(list), threshold)

RECURSIVE Reverse(_)
Reverse(s) == IF s = <<>> THEN <<>> ELSE Reverse(Tail(s)) \o <<Head(s)>>

RECURSIVE LRemAll(_, _)
LRemAll(list, items) ==
  IF items = <<>> THEN list ELSE LRemAll(LRem(list, Head(items)), Tail(items))

RECURSIVE CountIn(_, _)
CountIn(list, r) ==
  IF list = <<>> THEN 0
  ELSE (IF Head(list) = r THEN 1 ELSE 0) + CountIn(Tail(list), r)

\* The requests waiting in the queues pod p dequeues from and sweeps.
Pending(p) == {r \in Requests : CountIn(local[p], r) > 0 \/ r \in global}

\* check_timeout, first part: the loop over LRANGE local 0 -1 (LPUSH dlq,
\* LREM local for each expired item), then ZRANGE global 0 -1.
CheckTimeoutBegin(p) ==
  /\ podpc[p].op = "idle"
  /\ LET threshold == now - QUEUE_TIMEOUT_SEC
         moved == ExpiredOf(local[p], threshold)
         snap == ZRangeAll(global)
     IN /\ dlq' = Reverse(moved) \o dlq
        /\ local' = [local EXCEPT ![p] = LRemAll(@, moved)]
        /\ podpc' = [podpc EXCEPT ![p] =
             IF ExpiredOf(snap, threshold) = <<>> THEN IdlePc
             ELSE [IdlePc EXCEPT !.op = "sweep", !.tier = threshold,
                                 !.snap = ExpiredOf(snap, threshold)]]
        /\ timed_out_requests' = [timed_out_requests EXCEPT ![p] = moved]
        /\ swept' = [swept EXCEPT ![p] =
             [at |-> IF ExpiredOf(snap, threshold) = <<>> THEN now ELSE -1,
              queued |-> Pending(p)]]
  /\ UNCHANGED <<now, req, global, in_flight_requests, total_in_flight, wstate, wcur,
                 dispatched>>
  /\ UNCHANGED stopVars
  /\ UNCHANGED notSched

\* check_timeout, the loop over the ZRANGE result: for the next expired
\* member, ZREM global then LPUSH dlq (whether or not ZREM removed it).
CheckTimeoutGlobal(p) ==
  /\ podpc[p].op = "sweep"
  /\ LET r == Head(podpc[p].snap)
     IN /\ global' = global \ {r}
        /\ dlq' = <<r>> \o dlq
        /\ podpc' = [podpc EXCEPT ![p] =
             IF Tail(podpc[p].snap) = <<>> THEN IdlePc
             ELSE [podpc[p] EXCEPT !.snap = Tail(@)]]
        /\ timed_out_requests' = [timed_out_requests EXCEPT ![p] = Append(@, r)]
        /\ swept' = [swept EXCEPT ![p].at =
             IF Tail(podpc[p].snap) = <<>> THEN podpc[p].tier + QUEUE_TIMEOUT_SEC
             ELSE -1]
  /\ UNCHANGED <<now, req, local, in_flight_requests, total_in_flight, wstate, wcur,
                 dispatched>>
  /\ UNCHANGED stopVars
  /\ UNCHANGED notSched

\* The wall clock advances by step seconds.
Tick(step) ==
  /\ now + step <= MaxClock
  /\ now' = now + step
  /\ UNCHANGED <<req, local, global, dlq, in_flight_requests, total_in_flight,
                 wstate, wcur, podpc, dispatched>>
  /\ UNCHANGED sweepVars
  /\ UNCHANGED stopVars
  /\ UNCHANGED notSched

\* Two pods on the shared keys; each runs the first worker of its pool.
SharedWorkers == {1}

NextSched ==
  \/ \E p \in Pods, t \in Tenants : Enqueue(p, t, NumSharedRequests)
  \/ \E p \in Pods, w \in SharedWorkers : SchedBegin(p, w)
  \/ \E p \in Pods : SchedTier(p)
  \/ \E p \in Pods : SchedZrem(p)
  \/ \E p \in Pods, w \in SharedWorkers : Complete(p, w)
  \/ \E p \in Pods, w \in SharedWorkers : Fail(p, w)
  \/ \E p \in Pods : CheckTimeoutBegin(p)
  \/ \E p \in Pods : CheckTimeoutGlobal(p)
  \/ Tick(ClockStep)

\* One pod running alone: no other instance touches the shared keys.
NextPod ==
  \/ \E t \in Tenants : Enqueue("pod1", t, NumRequests)
  \/ \E w \in Workers : SchedBegin("pod1", w)
  \/ SchedTier("pod1")
  \/ SchedZrem("pod1")
  \/ \E w \in Workers : Complete("pod1", w)
  \/ \E w \in Workers : Fail("pod1", w)

\* AsyncWorkerPool.stop: running is cleared, then stop waits up to the grace
\* period for the worker tasks to end.
STOP_GRACE_SEC == 120
StopWaitStep == 60

Busy(p) == {w \in Workers : wstate[p][w] = "busy"}

Stop(p) ==
  /\ running[p]
  /\ podpc[p].op = "idle"
  /\ running' = [running EXCEPT ![p] = FALSE]
  /\ stop_call' = [stop_call EXCEPT ![p] = [pc |-> "gather", waited |-> 0]]
  /\ UNCHANGED <<now, req, local, global, dlq, in_flight_requests, total_in_flight,
                 wstate, wcur, podpc, dispatched, cancelled>>
  /\ UNCHANGED sweepVars
  /\ UNCHANGED notSched

\* Time passes while stop waits for workers that still process a request.
StopWait(p) ==
  /\ stop_call[p].pc = "gather"
  /\ Busy(p) # {}
  /\ stop_call[p].waited + StopWaitStep <= STOP_GRACE_SEC
  /\ stop_call' = [stop_call EXCEPT ![p].waited = @ + StopWaitStep]
  /\ UNCHANGED <<now, req, local, global, dlq, in_flight_requests, total_in_flight,
                 wstate, wcur, podpc, dispatched, running, cancelled>>
  /\ UNCHANGED sweepVars
  /\ UNCHANGED notSched

\* Every worker left its loop within the grace period: gather returns.
StopReturns(p) ==
  /\ stop_call[p].pc = "gather"
  /\ podpc[p].op = "idle"
  /\ Busy(p) = {}
  /\ stop_call' = [stop_call EXCEPT ![p].pc = "stopped"]
  /\ UNCHANGED <<now, req, local, global, dlq, in_flight_requests, total_in_flight,
                 wstate, wcur, podpc, dispatched, running, cancelled>>
  /\ UNCHANGED sweepVars
  /\ UNCHANGED notSched

\* The grace period ends with workers still processing: wait_for raises
\* TimeoutError and the worker tasks are cancelled.  CancelledError is not
\* an Exception: the task ends inside the callback, past the except branch
\* and past _remove_in_flight, and nothing is pushed on any list.
StopTimeout(p) ==
  /\ stop_call[p].pc = "gather"
  /\ podpc[p].op = "idle"
  /\ Busy(p) # {}
  /\ stop_call[p].waited = STOP_GRACE_SEC
  /\ cancelled' = cancelled \cup {wcur[p][w] : w \in Busy(p)}
  /\ wstate' = [wstate EXCEPT ![p] = [w \in Workers |-> "idle"]]
  /\ wcur' = [wcur EXCEPT ![p] = [w \in Workers |-> None]]
  /\ stop_call' = [stop_call EXCEPT ![p].pc = "stopped"]
  /\ UNCHANGED <<now, req, local, global, dlq, in_flight_requests, total_in_flight,
                 podpc, dispatched, running>>
  /\ UNCHANGED sweepVars
  /\ UNCHANGED notSched

\* One pod whose worker pool is stopped at some point.
NextStop ==
  \/ \E t \in Tenants : Enqueue("pod1", t, NumSharedRequests)
  \/ \E w \in Workers : SchedBegin("pod1", w)
  \/ SchedTier("pod1")
  \/ SchedZrem("pod1")
  \/ \E w \in Workers : Complete("pod1", w)
  \/ \E w \in Workers : Fail("pod1", w)
  \/ Stop("pod1")
  \/ StopWait("pod1")
  \/ StopReturns("pod1")
  \/ StopTimeout("pod1")

\* One pod running alone with its periodic sweep; the clock moves to the
\* timeout or one second past it, so that requests wait less than, exactly
\* and more than QUEUE_TIMEOUT_SEC.
SweepSteps == {QUEUE_TIMEOUT_SEC, QUEUE_TIMEOUT_SEC + 1}

NextSweep ==
  \/ \E t \in Tenants : Enqueue("pod1", t, NumSharedRequests)
  \/ \E w \in SharedWorkers : SchedBegin("pod1", w)
  \/ SchedTier("pod1")
  \/ SchedZrem("pod1")
  \/ \E w \in SharedWorkers : Complete("pod1", w)
  \/ \E w \in SharedWorkers : Fail("pod1", w)
  \/ CheckTimeoutBegin("pod1")
  \/ CheckTimeoutGlobal("pod1")
  \/ \E step \in SweepSteps : Tick(step)

(***************************************************************************)
(* Part 2 - the RAG pipeline of RAGService.generate_response.              *)
(*                                                                         *)
(* A search backend answers with hits {doc_id, content, score, tenant_id}; *)
(* the content of a hit is text of the tenant that owns the document, and  *)
(* the model writes the owner's name for it.  Python dicts are functions   *)
(* on their keys, so that a key a dict lacks is a key the code cannot      *)
(* read.  Scores are in tenths, weighted scores in hundredths.             *)
(***************************************************************************)

\* config.py: retrieval settings (weights in tenths, threshold in hundredths).
bm25_weight == 4
vector_weight == 6
retrieval_min_score == 30
retrieval_top_k == 5
cross_tenant_leakage_check_enabled == TRUE

\* Bounds of the model: hits one backend returns for one query.
MaxHits == 2

DocIds == {"d1", "d2"}
HitScores == {5, 10}
NoTenant == ""

\* The phrases of INJECTION_PATTERNS; a query is modelled by the set of
\* catalogue phrases its lower-cased text contains.
INJECTION_PATTERNS ==
  {"ignore previous instructions", "ignore the above instructions", "disregard",
   "forget the system prompt", "you are now in developer mode", "system override",
   "execute this command", "bypass"}
Queries == {{}, {"bypass"}}

\* validate_prompt: raises ValueError on the first pattern found.
ValidatePromptRaises(query) == \E pattern \in INJECTION_PATTERNS : pattern \in query

Hits == [doc_id : DocIds, content : Tenants, score : HitScores, tenant_id : Tenants]

\* What a backend can answer: up to MaxHits hits of distinct doc_id whose
\* tenant_id names the owner of the content.
BackendAnswers ==
  {h \in UNION {[1..n -> Hits] : n \in 0..MaxHits} :
     /\ \A i \in 1..Len(h) : h[i].tenant_id = h[i].content
     /\ \A i, j \in 1..Len(h) : i # j => h[i].doc_id # h[j].doc_id}

\* bm25_search / vector_search: the result dicts carry doc_id, content,
\* score and source, and nothing else of the hit.
SearchResults(hits, source) ==
  [i \in 1..Len(hits) |->
     [doc_id |-> hits[i].doc_id, content |-> hits[i].content,
      score |-> hits[i].score, source |-> source]]

\* hybrid_retrieve: merged[doc_id] for the BM25 results ...
MergeBm25(results) ==
  [i \in 1..Len(results) |->
     [doc_id |-> results[i].doc_id, content |-> results[i].content,
      score |-> results[i].score * bm25_weight, sources |-> <<results[i].source>>]]

\* ... then the vector results are added to it or appended.
RECURSIVE MergeVector(_, _)
MergeVector(merged, results) ==
  IF results = <<>> THEN merged
  ELSE LET r == Head(results)
           at == {i \in 1..Len(merged) : merged[i].doc_id = r.doc_id}
       IN IF at # {}
            THEN LET i == CHOOSE x \in at : TRUE
                 IN MergeVector(
                      [merged EXCEPT ![i].score = @ + r.score * vector_weight,
                                     ![i].sources = Append(@, r.source)],
                      Tail(results))
            ELSE MergeVector(
                   Append(merged, [doc_id |-> r.doc_id, content |-> r.content,
                                   score |-> r.score * vector_weight,
                                   sources |-> <<r.source>>]),
                   Tail(results))

\* sorted(..., key=score, reverse=True): stable.
RECURSIVE InsertByScore(_, _)
InsertByScore(sorted, d) ==
  IF sorted = <<>> THEN <<d>>
  ELSE IF Head(sorted).score >= d.score
         THEN <<Head(sorted)>> \o InsertByScore(Tail(sorted), d)
         ELSE <<d>> \o sorted

RECURSIVE SortByScore(_, _)
SortByScore(sorted, rest) ==
  IF rest = <<>> THEN sorted
  ELSE SortByScore(InsertByScore(sorted, Head(rest)), Tail(rest))

RECURSIVE FilterMinScore(_)
FilterMinScore(docs) ==
  IF docs = <<>> THEN <<>>
  ELSE IF Head(docs).score >= retrieval_min_score
         THEN <<Head(docs)>> \o FilterMinScore(Tail(docs))
         ELSE FilterMinScore(Tail(docs))

Min(a, b) == IF a <= b THEN a ELSE b

HybridRetrieve(bm25_hits, vector_hits) ==
  LET merged == MergeVector(MergeBm25(SearchResults(bm25_hits, "bm25")),
                            SearchResults(vector_hits, "vector"))
      kept == FilterMinScore(SortByScore(<<>>, merged))
  IN SubSeq(kept, 1, Min(Len(kept), retrieval_top_k))

\* doc.get("tenant_id") or doc.get("metadata", {}).get("tenant_id")
DocTenantId(doc) ==
  IF "tenant_id" \in DOMAIN doc /\ doc.tenant_id # NoTenant
    THEN doc.tenant_id
    ELSE IF "metadata" \in DOMAIN doc /\ "tenant_id" \in DOMAIN doc.metadata
           THEN doc.metadata.tenant_id
           ELSE NoTenant

\* check_cross_tenant_leakage raises for these docs.
CrossTenantLeakageRaises(docs, requesting_tenant_id) ==
  /\ cross_tenant_leakage_check_enabled
  /\ \E i \in 1..Len(docs) :
       /\ DocTenantId(docs[i]) # NoTenant
       /\ DocTenantId(docs[i]) # requesting_tenant_id

InitRag ==
  /\ rag_pc = "idle"
  /\ rag_tenant = NoTenant
  /\ rag_hits = <<<<>>, <<>>>>
  /\ rag_docs = <<>>
  /\ rag_response = <<>>
  /\ rag_error = "none"
  /\ leakage_attempts = 0
  /\ llm_calls = 0

\* generate_response, step 1: validate_prompt(query).
RagValidate(tenant_id, query) ==
  /\ rag_pc = "idle"
  /\ rag_tenant' = tenant_id
  /\ IF ValidatePromptRaises(query)
       THEN rag_pc' = "failed" /\ rag_error' = "injection"
       ELSE rag_pc' = "retrieve" /\ UNCHANGED rag_error
  /\ UNCHANGED <<rag_hits, rag_docs, rag_response, leakage_attempts, llm_calls>>
  /\ UNCHANGED notRag

\* Step 2: docs = await hybrid_retrieve(...); no docs ends the request
\* with the "no documents" answer.
RagRetrieve ==
  /\ rag_pc = "retrieve"
  /\ \E bm25_hits \in BackendAnswers, vector_hits \in BackendAnswers :
       /\ rag_hits' = <<bm25_hits, vector_hits>>
       /\ rag_docs' = HybridRetrieve(bm25_hits, vector_hits)
  /\ rag_pc' = IF rag_docs' = <<>> THEN "done" ELSE "check"
  /\ UNCHANGED <<rag_tenant, rag_response, rag_error, leakage_attempts, llm_calls>>
  /\ UNCHANGED notRag

\* Step 3: check_cross_tenant_leakage(docs, tenant_id); steps 4 and 5
\* build and redact the context.
RagCheck ==
  /\ rag_pc = "check"
  /\ IF CrossTenantLeakageRaises(rag_docs, rag_tenant)
       THEN /\ leakage_attempts' = leakage_attempts + 1
            /\ rag_error' = "cross_tenant_leakage"
            /\ rag_pc' = "failed"
       ELSE /\ rag_pc' = "llm"
            /\ UNCHANGED <<leakage_attempts, rag_error>>
  /\ UNCHANGED <<rag_tenant, rag_hits, rag_docs, rag_response, llm_calls>>
  /\ UNCHANGED notRag

\* Step 6: answer, tokens = await self._call_llm(prompt, tenant_id); steps
\* 7 and 8 return the answer with the docs.
RagCallLlm(ok) ==
  /\ rag_pc = "llm"
  /\ llm_calls' = llm_calls + 1
  /\ IF ok
       THEN rag_response' = rag_docs /\ rag_pc' = "done" /\ UNCHANGED rag_error
       ELSE rag_error' = "llm_error" /\ rag_pc' = "failed" /\ UNCHANGED rag_response
  /\ UNCHANGED <<rag_tenant, rag_hits, rag_docs, leakage_attempts>>
  /\ UNCHANGED notRag

NextRag ==
  \/ \E t \in Tenants, q \in Queries : RagValidate(t, q)
  \/ RagRetrieve
  \/ RagCheck
  \/ \E ok \in BOOLEAN : RagCallLlm(ok)

(***************************************************************************)
(* Part 3 - circuit breakers and retries (core/resilience.py).             *)
(*                                                                         *)
(* Time is in tenths of a second.  One call is in progress at a time.      *)
(* res_call.elapsed is the time since the call began; res_epoch counts the *)
(* idle periods of reset_timeout that have passed, and the calls made      *)
(* within one epoch take less than reset_timeout together, so a breaker    *)
(* opened in an earlier epoch has waited reset_timeout and one opened in   *)
(* the present epoch has not.                                              *)
(*                                                                         *)
(* A breaker is the storage of a pybreaker CircuitBreaker: state, failure  *)
(* counter, opened_at.  CircuitBreaker.call(func) runs func and counts an  *)
(* exception func raises; called with lambda: func(...) for a coroutine    *)
(* function it gets the coroutine object back, which raises nothing, and   *)
(* the adapter runs later, when the wrapper awaits the object.             *)
(***************************************************************************)

\* resilience.py: the global breakers are built with these.
fail_max == 5
reset_timeout == 600

\* with_retry(max_attempts=3) at _call_llm; execute_with_resilience(max_retries=3).
max_attempts == 3
max_retries == 3

\* with_retry(max_wait=10): the cap of wait_exponential.
max_wait == 100

\* S6: every adapter call takes 300 ms; the request deadline is 500 ms.
AdapterLatency == 3
Deadline == 5

\* Bounds of the model: calls begun, idle periods waited.
MaxCalls == 3
MaxWaits == 1

\* Bounds of the model where the retry schedule is followed (SpecRetry):
\* the largest max_retries a caller of execute_with_resilience passes, and
\* the calls begun.
MaxRetriesArg == 6
MaxRetryCalls == 1

\* The call sites: RAGService._call_llm, HybridVectorStore.store/search,
\* ResilientClient.execute_with_resilience, and a plain function
\* f(tenant_id, ...) under with_circuit_breaker(breaker).
Sites == {"llm", "vector", "client", "sync"}
Kinds == {"coroutine", "plain"}
Outcomes == {"ok", "transient", "permanent"}

\* asyncio.iscoroutinefunction(func) at the site.
SiteKinds(site) ==
  CASE site = "llm" -> {"coroutine"}
    [] site = "vector" -> {"coroutine"}
    [] site = "client" -> Kinds
    [] site = "sync" -> {"plain"}

\* The TenantAwareCircuitBreaker the site is given.
SiteService(site) ==
  CASE site = "llm" -> "llm_service"
    [] site = "vector" -> "vector_store_service"
    [] site = "client" -> "opensearch_service"
    [] site = "sync" -> "redis_service"
Services == {SiteService(s) : s \in Sites}

\* The decorator's tenant_id argument.
DecoratorTenantId(site) == IF site = "vector" THEN "hybrid" ELSE None

\* str(args[0]): self for the method _call_llm, the tenant for f.
Args0(site, tenant) == IF site = "llm" THEN "RAGService object" ELSE tenant

\* tenant = tenant_id or tenant_id_arg or args[0]; execute_with_resilience
\* takes str(tenant_id).
BreakerKey(site, tenant) ==
  IF site = "client" THEN tenant
  ELSE IF DecoratorTenantId(site) # None THEN DecoratorTenantId(site)
  ELSE Args0(site, tenant)

\* Attempts one call makes at most.
SiteAttempts(site) ==
  CASE site = "llm" -> max_attempts
    [] site = "client" -> max_retries
    [] OTHER -> 1

\* wait_exponential(multiplier=1, max=10) after attempt number attempt + 1,
\* and 2 ** attempt in execute_with_resilience: 1 s, 2 s.
RetryWait(attempt) == 10 * (2 ^ attempt)

\* wait_exponential(multiplier=1, max=max_wait) of with_retry.
WaitExponential(attempt) == Min(max_wait, RetryWait(attempt))

\* The sleep after a failed attempt: asyncio.sleep(2 ** attempt) in
\* execute_with_resilience, the wait of Retrying in with_retry.
SiteWait(site, attempt) ==
  IF site = "client" THEN RetryWait(attempt) ELSE WaitExponential(attempt)

NewBreaker == [state |-> "closed", counter |-> 0, opened_at |-> -1]

\* get_tenant_breaker on the tenant_states of one service.
GetTenantBreaker(states, key) ==
  IF key \in DOMAIN states THEN states ELSE states @@ (key :> NewBreaker)

\* CircuitBreaker: the function raised.  The counter goes up; a closed
\* breaker at fail_max and a half-open one open, and CircuitBreakerError
\* replaces the error.
CbFailure(b, epoch, error) ==
  IF b.state = "half_open" \/ b.counter + 1 >= fail_max
    THEN [b |-> [state |-> "open", counter |-> b.counter + 1, opened_at |-> epoch],
          invoked |-> TRUE, error |-> "circuit_open"]
    ELSE [b |-> [b EXCEPT !.counter = @ + 1], invoked |-> TRUE, error |-> error]

\* CircuitBreaker: the function returned.
CbSuccess(b) ==
  [b |-> [state |-> "closed", counter |-> 0, opened_at |-> -1],
   invoked |-> TRUE, error |-> "none"]

\* An open breaker whose reset_timeout has passed.
TimedOut(b, epoch) == b.state = "open" /\ epoch > b.opened_at

\* CircuitBreaker.call(func) where func is seen to end with observed.
CbCall(b, epoch, observed) ==
  IF b.state = "open" /\ ~TimedOut(b, epoch)
    THEN [b |-> b, invoked |-> FALSE, error |-> "circuit_open"]
    ELSE LET entered == IF b.state = "open" THEN [b EXCEPT !.state = "half_open"] ELSE b
         IN IF observed = "ok" THEN CbSuccess(entered)
            ELSE CbFailure(entered, epoch, observed)

IdleCall ==
  [op |-> "idle", site |-> "none", tenant |-> NoTenant, kind |-> "none",
   key |-> None, budget |-> 0, attempt |-> 0, wait |-> 0, elapsed |-> 0,
   error |-> "none",
   invoked |-> FALSE, outcome |-> "none"]

InitRes ==
  /\ res_epoch = 0
  /\ tenant_states = [svc \in Services |-> <<>>]
  /\ res_call = IdleCall
  /\ res_calls = 0
  /\ failed_calls = [s \in Sites |-> [t \in Tenants |-> 0]]
  /\ failed_epoch = [s \in Sites |-> [t \in Tenants |-> 0]]
  /\ used_key = [s \in Sites |-> [t \in Tenants |-> None]]

\* A wrapped function is called for a tenant: the wrapper (or
\* execute_with_resilience) picks the breaker.  budget is the number of
\* attempts allowed: the max_retries argument of execute_with_resilience,
\* what the decorators fix elsewhere.  At most limit calls are begun.
ResBegin(site, tenant, kind, budget, limit) ==
  /\ res_call.op # "attempt"
  /\ res_calls < limit
  /\ kind \in SiteKinds(site)
  /\ site # "client" => budget = SiteAttempts(site)
  /\ res_calls' = res_calls + 1
  /\ tenant_states' = [tenant_states EXCEPT ![SiteService(site)] =
                         GetTenantBreaker(@, BreakerKey(site, tenant))]
  /\ used_key' = [used_key EXCEPT ![site][tenant] = BreakerKey(site, tenant)]
  /\ res_call' = [IdleCall EXCEPT !.op = "attempt", !.site = site, !.tenant = tenant,
                                  !.kind = kind, !.key = BreakerKey(site, tenant),
                                  !.budget = budget]
  /\ UNCHANGED <<res_epoch, failed_calls, failed_epoch>>
  /\ UNCHANGED notRes

\* The breaker is consulted in this attempt: at every attempt of
\* execute_with_resilience, once per call of a decorated function (the
\* retries of _call_llm run inside the one cb.call).
ThroughBreaker(call) == call.site # "llm" \/ call.attempt = 0

\* One attempt: cb.call where the breaker is consulted, the adapter run,
\* and then the return, the raise, or the sleep before the next attempt.
ResAttempt(outcome) ==
  /\ res_call.op = "attempt"
  /\ LET c == res_call
         svc == SiteService(c.site)
         b == tenant_states[svc][c.key]
         observed == IF c.kind = "coroutine" THEN "ok" ELSE outcome
         r == IF ThroughBreaker(c) THEN CbCall(b, res_epoch, observed)
              ELSE [b |-> b, invoked |-> TRUE, error |-> "none"]
         error == IF ~r.invoked THEN "circuit_open"
                  ELSE IF c.kind = "plain" THEN r.error
                  ELSE IF outcome = "ok" THEN "none" ELSE outcome
         spent == c.elapsed + (IF r.invoked THEN AdapterLatency ELSE 0)
         last == \/ c.attempt = c.budget - 1
                 \/ (c.site = "llm" /\ ~r.invoked)
         seen == [c EXCEPT !.invoked = r.invoked,
                           !.outcome = IF r.invoked THEN outcome ELSE "none"]
         counted == IF c.site = "llm" THEN r.invoked /\ (error = "none" \/ last)
                    ELSE r.invoked
     IN /\ tenant_states' = [tenant_states EXCEPT ![svc][c.key] = r.b]
        /\ res_call' =
             IF error = "none"
               THEN [seen EXCEPT !.op = "returned", !.elapsed = spent, !.error = "none"]
               ELSE IF last
                 THEN [seen EXCEPT !.op = "raised", !.elapsed = spent,
                                   !.error = IF c.site = "llm" /\ r.invoked
                                               THEN "retry_error" ELSE error]
                 ELSE [seen EXCEPT !.attempt = @ + 1,
                                   !.wait = SiteWait(c.site, c.attempt),
                                   !.elapsed = spent + SiteWait(c.site, c.attempt),
                                   !.error = error]
        /\ failed_calls' =
             IF counted
               THEN [failed_calls EXCEPT ![c.site][c.tenant] =
                       IF error = "none" THEN 0 ELSE @ + 1]
               ELSE failed_calls
        /\ failed_epoch' =
             IF counted /\ error # "none"
               THEN [failed_epoch EXCEPT ![c.site][c.tenant] = res_epoch]
               ELSE failed_epoch
  /\ UNCHANGED <<res_epoch, res_calls, used_key>>
  /\ UNCHANGED notRes

\* No call is made for reset_timeout.
ResWait ==
  /\ res_call.op # "attempt"
  /\ res_epoch < MaxWaits
  /\ res_epoch' = res_epoch + 1
  /\ UNCHANGED <<tenant_states, res_call, res_calls, failed_calls, failed_epoch, used_key>>
  /\ UNCHANGED notRes

NextRes ==
  \/ \E s \in Sites, t \in Tenants, k \in Kinds :
       ResBegin(s, t, k, SiteAttempts(s), MaxCalls)
  \/ \E o \in Outcomes : ResAttempt(o)
  \/ ResWait

\* One call of a retrying site, with any max_retries up to MaxRetriesArg.
RetrySites == {"llm", "client"}

NextRetry ==
  \/ \E s \in RetrySites, t \in Tenants, k \in Kinds, n \in 1..MaxRetriesArg :
       ResBegin(s, t, k, n, MaxRetryCalls)
  \/ \E o \in Outcomes : ResAttempt(o)
  \/ ResWait

(***************************************************************************)
(* Part 4 - the token bucket (dependencies/tenant.py).                     *)
(*                                                                         *)
(* tokens is a float in the code; the model counts tenths of a token and   *)
(* tenths of a second, so that time_passed * refill_rate is a whole number *)
(* of tenths of a token.  A caller asks for one token or more, and the     *)
(* clock does not go back.                                                 *)
(***************************************************************************)

TokenScale == 10

\* No bucket made yet; last_refill_time None.
NoBucket == -1
NoTime == -1

\* Bounds of the model: the clock, and the tokens one call asks for.
MaxBucketClock == 12
MaxAmount == 2

\* The buckets made (S2 has capacity 10 and 5 tokens per second) and the
\* times that pass between two calls.
Capacities == {1, 3, 10}
RefillRates == {1, 5}
BucketSteps == {1, 10}

InitBucket ==
  /\ capacity = NoBucket
  /\ refill_rate = 0
  /\ tokens = 0
  /\ last_refill_time = NoTime
  /\ bucket_now = 0
  /\ last_result = "none"
  /\ burst_admitted = 0
  /\ burst_budget = 0
  /\ total_admitted = 0

\* TokenBucket.__init__: the bucket starts full.
BucketCreate(c, rate) ==
  /\ capacity = NoBucket
  /\ capacity' = c
  /\ refill_rate' = rate
  /\ tokens' = c * TokenScale
  /\ last_refill_time' = NoTime
  /\ burst_budget' = c
  /\ UNCHANGED <<bucket_now, last_result, burst_admitted, total_admitted>>
  /\ UNCHANGED notBucket

\* The refill without its cap.
RefillUncapped(held, cap, time_passed, rate) == held + time_passed * rate

\* min(self.capacity, self.tokens + time_passed * self.refill_rate)
Refill(held, cap, time_passed, rate) ==
  Min(cap * TokenScale, held + time_passed * rate)

\* The test that asks for more than the amount.
CanConsumeStrict(held, amount) == held > amount * TokenScale

\* if self.tokens >= tokens
CanConsume(held, amount) == held >= amount * TokenScale

\* TokenBucket.try_consume(amount)
TryConsume(amount) ==
  /\ capacity # NoBucket
  /\ LET last == IF last_refill_time = NoTime THEN bucket_now ELSE last_refill_time
         held == Refill(tokens, capacity, bucket_now - last, refill_rate)
     IN /\ last_refill_time' = bucket_now
        /\ IF CanConsume(held, amount)
             THEN /\ tokens' = held - amount * TokenScale
                  /\ last_result' = "admitted"
                  /\ burst_admitted' = burst_admitted + 1
                  /\ total_admitted' = total_admitted + 1
             ELSE /\ tokens' = held
                  /\ last_result' = "rate_limited"
                  /\ UNCHANGED <<burst_admitted, total_admitted>>
  /\ UNCHANGED <<capacity, refill_rate, bucket_now, burst_budget>>
  /\ UNCHANGED notBucket

\* Time passes with no call; a new burst can begin.  The bucket then
\* holds min(capacity, tokens_left + refill_rate x dt) tokens, dt counted
\* from the last call.
BucketTick(dt) ==
  /\ capacity # NoBucket
  /\ bucket_now + dt <= MaxBucketClock
  /\ bucket_now' = bucket_now + dt
  /\ burst_admitted' = 0
  /\ last_result' = "none"
  /\ burst_budget' =
       LET last == IF last_refill_time = NoTime THEN bucket_now' ELSE last_refill_time
       IN Min(capacity * TokenScale, tokens + refill_rate * (bucket_now' - last))
            \div TokenScale
  /\ UNCHANGED <<capacity, refill_rate, tokens, last_refill_time, total_admitted>>
  /\ UNCHANGED notBucket

\* Calls that ask for any amount.
NextBucket ==
  \/ \E c \in Capacities, rate \in RefillRates : BucketCreate(c, rate)
  \/ \E amount \in 1..MaxAmount : TryConsume(amount)
  \/ \E dt \in BucketSteps : BucketTick(dt)

\* Requests, one token each.
NextBurst ==
  \/ \E c \in Capacities, rate \in RefillRates : BucketCreate(c, rate)
  \/ TryConsume(1)
  \/ \E dt \in BucketSteps : BucketTick(dt)

(***************************************************************************)
(* Part 5 - the tenant-keyed Redis cache (core/cache.py).                  *)
(*                                                                         *)
(* A string is a sequence of pieces; a piece is a run of characters free   *)
(* of ":" or the separator ":" itself.  A tenant id is whatever the caller *)
(* passes (the JWT claim or the X-Tenant-ID header): no code restricts its *)
(* characters.  A stored value is named by the tenant that stored it.      *)
(***************************************************************************)

\* Keys longer than this are hashed.
MaxKeyLength == 200

\* The length of each piece; "long" is a run of MaxKeyLength characters.
PieceLen(piece) ==
  CASE piece = "long" -> MaxKeyLength
    [] piece = ":" -> 1
    [] OTHER -> 4

RECURSIVE StrLen(_)
StrLen(str) == IF str = <<>> THEN 0 ELSE PieceLen(Head(str)) + StrLen(Tail(str))

\* The tenant ids and the key arguments of the callers.
CacheTenants == {<<"acme">>, <<"acme", ":", "docs">>, <<"beta">>}
CacheKeyArgs == {<<"item">>, <<"docs", ":", "item">>, <<"long">>}
CachedFuncs == {<<"docs">>}

\* ":".join(parts)
RECURSIVE Join(_)
Join(parts) ==
  IF Len(parts) = 1 THEN parts[1]
  ELSE parts[1] \o <<":">> \o Join(Tail(parts))

\* hashlib.md5(key_string.encode()).hexdigest(): one piece, free of ":",
\* that stands for the digest of that text.
Md5HexDigest(key_string) == ToString(key_string)

\* RedisCache.get_cache_key(tenant_id, *args)
GetCacheKey(tenant_id, args) ==
  LET key_string == Join(<<tenant_id>> \o args)
  IN IF StrLen(key_string) > MaxKeyLength
       THEN tenant_id \o <<":">> \o <<Md5HexDigest(key_string)>>
       ELSE key_string

NoCacheOp == [op |-> "none", tenant_id |-> <<>>, result |-> <<>>, count |-> 0]

InitCache ==
  /\ cache_store = <<>>
  /\ cache_op = NoCacheOp

\* SETEX key ttl value
SetEx(store, cache_key, owner) ==
  [k \in (DOMAIN store) \cup {cache_key} |-> IF k = cache_key THEN owner ELSE store[k]]

\* Bound on the keys the cache holds at one time.
MaxCacheKeys == 3

HasRoom(cache_key) ==
  cache_key \in DOMAIN cache_store \/ Cardinality(DOMAIN cache_store) < MaxCacheKeys

\* RedisCache.set / set_async
CacheSet(tenant_id, key) ==
  /\ HasRoom(GetCacheKey(tenant_id, <<key>>))
  /\ cache_store' = SetEx(cache_store, GetCacheKey(tenant_id, <<key>>), tenant_id)
  /\ cache_op' = [NoCacheOp EXCEPT !.op = "set", !.tenant_id = tenant_id]
  /\ UNCHANGED notCache

\* The value a GET of the key gives, or the empty text on a miss.
Lookup(store, cache_key) ==
  IF cache_key \in DOMAIN store THEN store[cache_key] ELSE <<>>

\* RedisCache.get / get_async
CacheGet(tenant_id, key) ==
  /\ cache_op' = [NoCacheOp EXCEPT !.op = "get", !.tenant_id = tenant_id,
                     !.result = Lookup(cache_store, GetCacheKey(tenant_id, <<key>>))]
  /\ UNCHANGED cache_store
  /\ UNCHANGED notCache

\* cache_result: the key is the function name and the arguments joined by
\* ":"; a hit is returned, a miss runs the function and stores its result.
CachedCall(tenant_id, func, arg) ==
  LET cache_key == GetCacheKey(tenant_id, <<Join(<<func, arg>>)>>)
      cached == Lookup(cache_store, cache_key)
  IN /\ HasRoom(cache_key)
     /\ cache_op' = [NoCacheOp EXCEPT !.op = "get", !.tenant_id = tenant_id,
                        !.result = IF cached # <<>> THEN cached ELSE tenant_id]
     /\ cache_store' = IF cached # <<>> THEN cache_store
                       ELSE SetEx(cache_store, cache_key, tenant_id)
     /\ UNCHANGED notCache

\* SCAN cursor MATCH "<tenant_id>:*", run to the end: the keys that begin
\* with the tenant id and a ":".
ScanMatch(store, tenant_id) ==
  {k \in DOMAIN store :
     Len(k) > Len(tenant_id) /\ SubSeq(k, 1, Len(tenant_id) + 1) = tenant_id \o <<":">>}

\* RedisCache.clear_tenant_cache
ClearTenantCache(tenant_id) ==
  LET keys == ScanMatch(cache_store, tenant_id)
  IN /\ cache_store' = [k \in (DOMAIN cache_store) \ keys |-> cache_store[k]]
     /\ cache_op' = [NoCacheOp EXCEPT !.op = "clear", !.tenant_id = tenant_id,
                        !.count = Cardinality(keys)]
     /\ UNCHANGED notCache

CachedArgs == {<<"item">>}

NextCache ==
  \/ \E t \in CacheTenants, k \in CacheKeyArgs : CacheSet(t, k)
  \/ \E t \in CacheTenants, k \in CacheKeyArgs : CacheGet(t, k)
  \/ \E t \in CacheTenants, f \in CachedFuncs, a \in CachedArgs : CachedCall(t, f, a)
  \/ \E t \in CacheTenants : ClearTenantCache(t)

(***************************************************************************)
(* Part 6 - the prompt-injection screens: the field validator of           *)
(* QueryRequest (models/schemas.py), PromptInjectionDetector               *)
(* (core/security.py) and validate_prompt (services/governance_service.py),*)
(* the one generate_response calls.  A text is a sequence of characters;   *)
(* the words of a query are separated by one space.                        *)
(***************************************************************************)

\* str.lower() on the letters the queries use.
LowerChar(c) == IF c = "I" THEN "i" ELSE IF c = "A" THEN "a" ELSE c
Lower(text) == [i \in 1..Len(text) |-> LowerChar(text[i])]

\* pattern in text, and re.search(pattern, text) for a pattern of plain
\* characters: the pattern occurs at position i.
OccursAt(text, pattern, i) ==
  /\ i + Len(pattern) - 1 <= Len(text)
  /\ SubSeq(text, i, i + Len(pattern) - 1) = pattern

Contains(text, pattern) == \E i \in 1..Len(text) : OccursAt(text, pattern, i)

\* re.search(r'\bpattern\b', text): an occurrence with no word character
\* on either side.
WordChar(c) == c # " "

SearchWord(text, pattern) ==
  \E i \in 1..Len(text) :
    /\ OccursAt(text, pattern, i)
    /\ (i = 1 \/ ~WordChar(text[i - 1]))
    /\ (i + Len(pattern) - 1 = Len(text) \/ ~WordChar(text[i + Len(pattern)]))

Range(seq) == {seq[i] : i \in 1..Len(seq)}

\* QueryRequest.validate_no_injection: injection_keywords
injection_keywords ==
  <<<<"i", "g", "n", "o", "r", "e">>,
    <<"d", "i", "s", "r", "e", "g", "a", "r", "d">>,
    <<"o", "v", "e", "r", "r", "i", "d", "e">>,
    <<"b", "y", "p", "a", "s", "s">>,
    <<"f", "o", "r", "g", "e", "t">>,
    <<"c", "l", "e", "a", "r", " ", "c", "o", "n", "t", "e", "x", "t">>,
    <<"n", "e", "w", " ", "i", "n", "s", "t", "r", "u", "c", "t", "i", "o", "n", "s">>,
    <<"y", "o", "u", " ", "a", "r", "e", " ", "n", "o", "w">>,
    <<"r", "e", "s", "p", "o", "n", "d", " ", "a", "s">>,
    <<"a", "c", "t", " ", "a", "s">>>>

\* PromptInjectionDetector.INJECTION_KEYWORDS, each between two \b;
\* role\s*play is listed as it matches with no space and with one.
INJECTION_KEYWORDS ==
  <<<<"i", "g", "n", "o", "r", "e">>,
    <<"d", "i", "s", "r", "e", "g", "a", "r", "d">>,
    <<"o", "v", "e", "r", "r", "i", "d", "e">>,
    <<"b", "y", "p", "a", "s", "s">>,
    <<"f", "o", "r", "g", "e", "t">>,
    <<"c", "l", "e", "a", "r", " ", "c", "o", "n", "t", "e", "x", "t">>,
    <<"n", "e", "w", " ", "i", "n", "s", "t", "r", "u", "c", "t", "i", "o", "n", "s">>,
    <<"y", "o", "u", " ", "a", "r", "e", " ", "n", "o", "w">>,
    <<"r", "e", "s", "p", "o", "n", "d", " ", "a", "s">>,
    <<"a", "c", "t", " ", "a", "s">>,
    <<"p", "r", "e", "t", "e", "n", "d">>,
    <<"r", "o", "l", "e", "p", "l", "a", "y">>,
    <<"r", "o", "l", "e", " ", "p", "l", "a", "y">>>>

\* governance_service.INJECTION_PATTERNS
INJECTION_PHRASES ==
  <<<<"i", "g", "n", "o", "r", "e", " ", "p", "r", "e", "v", "i", "o", "u", "s", " ", "i", "n", "s", "t", "r", "u", "c", "t", "i", "o", "n", "s">>,
    <<"i", "g", "n", "o", "r", "e", " ", "t", "h", "e", " ", "a", "b", "o", "v", "e", " ", "i", "n", "s", "t", "r", "u", "c", "t", "i", "o", "n", "s">>,
    <<"d", "i", "s", "r", "e", "g", "a", "r", "d">>,
    <<"f", "o", "r", "g", "e", "t", " ", "t", "h", "e", " ", "s", "y", "s", "t", "e", "m", " ", "p", "r", "o", "m", "p", "t">>,
    <<"y", "o", "u", " ", "a", "r", "e", " ", "n", "o", "w", " ", "i", "n", " ", "d", "e", "v", "e", "l", "o", "p", "e", "r", " ", "m", "o", "d", "e">>,
    <<"s", "y", "s", "t", "e", "m", " ", "o", "v", "e", "r", "r", "i", "d", "e">>,
    <<"e", "x", "e", "c", "u", "t", "e", " ", "t", "h", "i", "s", " ", "c", "o", "m", "m", "a", "n", "d">>,
    <<"b", "y", "p", "a", "s", "s">>>>

\* QueryRequest.validate_no_injection raises ValueError.
ValidateNoInjectionRaises(v) ==
  \E keyword \in Range(injection_keywords) : Contains(Lower(v), keyword)

\* PromptInjectionDetector.is_injection_attempt returns (True, reason).
IsInjectionAttempt(text) ==
  \E keyword_pattern \in Range(INJECTION_KEYWORDS) : SearchWord(Lower(text), keyword_pattern)

\* governance_service.validate_prompt raises ValueError.
ValidatePrompt(text) ==
  \E pattern \in Range(INJECTION_PHRASES) : Contains(Lower(text), pattern)

\* The words a caller builds a query from, and the longest query.
QueryVocabulary ==
  {<<"I", "g", "n", "o", "r", "e">>,
   <<"i", "g", "n", "o", "r", "e", "d">>,
   <<"A", "c", "t">>,
   <<"a", "s">>,
   <<"b", "y", "p", "a", "s", "s">>,
   <<"h", "e", "l", "l", "o">>}
MaxQueryWords == 3

NotScreened == [request |-> "none", detector |-> "none", rag |-> "none"]

InitScreen ==
  /\ screen_query = <<>>
  /\ query_words = 0
  /\ screen_result = NotScreened

\* The caller writes one more word of the query.
TypeWord(word) ==
  /\ screen_result = NotScreened
  /\ query_words < MaxQueryWords
  /\ screen_query' = IF screen_query = <<>> THEN word ELSE screen_query \o <<" ">> \o word
  /\ query_words' = query_words + 1
  /\ UNCHANGED screen_result
  /\ UNCHANGED notScreen

Verdict(raises) == IF raises THEN "rejected" ELSE "passed"

\* The query goes through each screen: QueryRequest(query=...), the
\* detector, and generate_response up to validate_prompt.
SubmitQuery ==
  /\ screen_result = NotScreened
  /\ screen_query # <<>>
  /\ screen_result' = [request |-> Verdict(ValidateNoInjectionRaises(screen_query)),
                        detector |-> Verdict(IsInjectionAttempt(screen_query)),
                        rag |-> Verdict(ValidatePrompt(screen_query))]
  /\ UNCHANGED <<screen_query, query_words>>
  /\ UNCHANGED notScreen

NextScreen ==
  \/ \E word \in QueryVocabulary : TypeWord(word)
  \/ SubmitQuery

(***************************************************************************)
(* Part 7 - ConfigLoader.load_settings (core/config_loader.py).            *)
(*                                                                         *)
(* Each source gives a key its own value, so a value is named by the       *)
(* source it came from.  The cloud secrets are those of the provider that  *)
(* KMS_PROVIDER names; the keys of the model are not among the keys        *)
(* _validate_configuration looks at.                                       *)
(***************************************************************************)

ConfigSources ==
  {"environment", "aws_kms", "kubernetes_secret", ".env.production", ".env.staging",
   ".env", ".env.example"}

\* ConfigLoader.SOURCES_PRIORITY
SOURCES_PRIORITY(source) ==
  CASE source = "environment" -> 100
    [] source = "aws_kms" -> 90
    [] source = "kubernetes_secret" -> 80
    [] source = ".env.production" -> 70
    [] source = ".env.staging" -> 60
    [] source = ".env" -> 50
    [] source = ".env.example" -> 10

Environments == {"development", "staging", "production"}

\* ConfigLoader.ENV_FILES
ENV_FILES(env) ==
  CASE env = "development" -> <<".env", ".env.example">>
    [] env = "staging" -> <<".env.staging", ".env", ".env.example">>
    [] env = "production" -> <<".env.production", ".env.example">>

\* Two keys: one that _load_environment_variables takes from os.environ
\* (upper case, contains "APP_") and one it does not (upper case, contains
\* none of the listed fragments).
ConfigKeys == {"APP_NAME", "LOG_LEVEL"}
PassesEnvFilter(key) == key = "APP_NAME"

KeysOf(defs, source) == {key \in ConfigKeys : <<source, key>> \in defs}

\* if key not in self.config: self.config[key] = value
SetDefault(cfg, keys, source) ==
  [key \in (DOMAIN cfg) \cup keys |-> IF key \in DOMAIN cfg THEN cfg[key] ELSE source]

\* _load_env_files: the files of the environment, in the order of ENV_FILES.
RECURSIVE LoadEnvFiles(_, _, _)
LoadEnvFiles(cfg, files, defs) ==
  IF files = <<>> THEN cfg
  ELSE LoadEnvFiles(SetDefault(cfg, KeysOf(defs, Head(files)), Head(files)),
                    Tail(files), defs)

\* _load_kubernetes_secrets
LoadKubernetesSecrets(cfg, env, defs) ==
  IF env # "production" THEN cfg
  ELSE SetDefault(cfg, KeysOf(defs, "kubernetes_secret"), "kubernetes_secret")

\* _load_kms_secrets
LoadKmsSecrets(cfg, defs) == SetDefault(cfg, KeysOf(defs, "aws_kms"), "aws_kms")

\* os.environ once load_dotenv(env_path, override=False) has run on each
\* file: key -> the source whose value it holds.
OsEnviron(env, defs) ==
  LoadEnvFiles(SetDefault(<<>>, KeysOf(defs, "environment"), "environment"),
               ENV_FILES(env), defs)

\* _load_environment_variables
LoadEnvironmentVariables(cfg, environ) ==
  LET keys == {key \in DOMAIN environ : PassesEnvFilter(key)}
  IN [key \in (DOMAIN cfg) \cup keys |-> IF key \in keys THEN environ[key] ELSE cfg[key]]

InitConfig ==
  /\ loader_env = "none"
  /\ defined = {}
  /\ config = <<>>
  /\ loaded = FALSE

\* ConfigLoader.__init__
ConfigLoaderInit(env) ==
  /\ loader_env = "none"
  /\ loader_env' = env
  /\ UNCHANGED <<defined, config, loaded>>
  /\ UNCHANGED notConfig

\* The deployment gives a key a value in one more source.
MaxDefinitions == 3

DefineKey(source, key) ==
  /\ ~loaded
  /\ Cardinality(defined) < MaxDefinitions
  /\ <<source, key>> \notin defined
  /\ defined' = defined \cup {<<source, key>>}
  /\ UNCHANGED <<loader_env, config, loaded>>
  /\ UNCHANGED notConfig

\* ConfigLoader.load_settings
LoadSettings ==
  /\ loader_env # "none"
  /\ ~loaded
  /\ config' = LoadEnvironmentVariables(
                  LoadKmsSecrets(
                    LoadKubernetesSecrets(
                      LoadEnvFiles(config, ENV_FILES(loader_env), defined),
                      loader_env, defined),
                    defined),
                  OsEnviron(loader_env, defined))
  /\ loaded' = TRUE
  /\ UNCHANGED <<loader_env, defined>>
  /\ UNCHANGED notConfig

NextConfig ==
  \/ \E env \in Environments : ConfigLoaderInit(env)
  \/ \E source \in ConfigSources, key \in ConfigKeys : DefineKey(source, key)
  \/ LoadSettings

(***************************************************************************)
(* Part 8 - RateLimitMiddleware (middleware.py), as main.py installs it.   *)
(*                                                                         *)
(* dispatch has no await before its last line, so one request is one step  *)
(* up to the call of the downstream handler.                               *)
(***************************************************************************)

\* app.add_middleware(RateLimitMiddleware, requests_per_minute=100), scaled
requests_per_minute == 2

\* current_time - t < 60
RATE_WINDOW_SEC == 60

\* request.headers.get("X-Tenant-ID", "unknown")
RateTenants == {"A", "B", "unknown"}

RateSteps == {29, 30}
MaxRateClock == 90
MaxRateRequests == 5

RECURSIVE SelectSeqBy(_, _, _)
\* [t for t in timestamps if current_time - t < 60]
SelectSeqBy(timestamps, current_time, window) ==
  IF timestamps = <<>> THEN <<>>
  ELSE (IF current_time - Head(timestamps) < window THEN <<Head(timestamps)>> ELSE <<>>)
         \o SelectSeqBy(Tail(timestamps), current_time, window)

CleanOld(timestamps, current_time) == SelectSeqBy(timestamps, current_time, RATE_WINDOW_SEC)

\* A limit that lets one request more through.
OverLimitStrict(timestamps) == Len(timestamps) > requests_per_minute

\* len(self.request_counts[tenant_id]) >= self.requests_per_minute
OverLimit(timestamps) == Len(timestamps) >= requests_per_minute

NoResponse == [tenant_id |-> "none", status_code |-> 0, at |-> 0]

InitRate ==
  /\ rate_now = 0
  /\ request_counts = <<>>
  /\ passed = [t \in RateTenants |-> <<>>]
  /\ rate_response = NoResponse

RequestsSeen == Len(passed["A"]) + Len(passed["B"]) + Len(passed["unknown"])

\* RateLimitMiddleware.dispatch
RateDispatch(tenant_id) ==
  /\ RequestsSeen < MaxRateRequests
  /\ LET current_time == rate_now
         old == IF tenant_id \in DOMAIN request_counts
                  THEN request_counts[tenant_id] ELSE <<>>
         kept == CleanOld(old, current_time)
         store(list) == [t \in (DOMAIN request_counts) \cup {tenant_id} |->
                           IF t = tenant_id THEN list ELSE request_counts[t]]
     IN IF OverLimit(kept)
          THEN /\ request_counts' = store(kept)
               /\ rate_response' = [tenant_id |-> tenant_id, status_code |-> 429,
                                    at |-> current_time]
               /\ UNCHANGED passed
          ELSE /\ request_counts' = store(Append(kept, current_time))
               /\ passed' = [passed EXCEPT ![tenant_id] = Append(@, current_time)]
               /\ rate_response' = [tenant_id |-> tenant_id, status_code |-> 200,
                                    at |-> current_time]
  /\ UNCHANGED rate_now
  /\ UNCHANGED notRate

\* time.time() moves on between two requests.
RateTick(step) ==
  /\ rate_now + step <= MaxRateClock
  /\ rate_now' = rate_now + step
  /\ UNCHANGED <<request_counts, passed, rate_response>>
  /\ UNCHANGED notRate

NextRate ==
  \/ \E tenant_id \in RateTenants : RateDispatch(tenant_id)
  \/ \E step \in RateSteps : RateTick(step)

vars == <<schedVars, ragVars, resVars, bucketVars, cacheVars, screenVars, configVars,
          rateVars>>

(***************************************************************************)
(* Claims on the scheduler.                                                *)
(***************************************************************************)

\* In-flight count of pod p held by the tenants of one tier.
TierInFlight(m, tier) == SumCounts(m, {t \in DOMAIN m : TenantTier(t) = tier})

\* C1: in every reachable state of a scheduler instance, whatever the
\* interleaving of its workers' schedule_next calls and completions,
\* total_in_flight (and the sum of the per-tenant in-flight counts) is at
\* most MAX_INFLIGHT_PER_POD.
C1_TotalInFlightBounded ==
  \A p \in Pods :
    /\ total_in_flight[p] <= MAX_INFLIGHT_PER_POD
    /\ SumCounts(in_flight_requests[p], DOMAIN in_flight_requests[p])
         <= MAX_INFLIGHT_PER_POD

\* C1 witness: the pod holds as many requests in flight as schedule_next
\* lets it, both workers are busy, and more requests wait in both queues.
C1_Witness ==
  /\ total_in_flight["pod1"] = MaxCapacity("ENTERPRISE")
  /\ \A w \in Workers : wstate["pod1"][w] = "busy"
  /\ local["pod1"] # <<>>
  /\ global # {}

Places(r) ==
  SumCounts([p \in Pods |-> CountIn(local[p], r)], Pods)
    + (IF r \in global THEN 1 ELSE 0)
    + CountIn(dlq, r)
    + dispatched[r]

C3_ExactlyOnePlace ==
  (\A p \in Pods : podpc[p].op = "idle")
    => \A r \in Requests : Submitted(r) => Places(r) = 1

\* A step in which schedule_next of pod p returns request r.
Dispatches(p, r) ==
  /\ dispatched'[r] = dispatched[r] + 1
  /\ total_in_flight'[p] = total_in_flight[p] + 1

\* C14: enqueue reports Overflow when the local and the global queue are
\* both at capacity, and the rejected request is then in neither queue;
\* the depth of the global queue never exceeds its capacity.
C14_OverflowRejected ==
  [][/\ \A r \in Requests :
          (~Submitted(r) /\ req'[r] # NoReq /\ Cardinality(global) >= MAX_QUEUE_DEPTH)
            => r \notin global'
     /\ Cardinality(global') <= MAX_QUEUE_DEPTH]_vars

\* C15: a request placed in the global queue is handed to at most one
\* caller, whatever the interleaving of the dequeue calls of the pods.
C15_AtMostOneDequeue == \A r \in Requests : dispatched[r] <= 1

\* C16: within one tier requests are dispatched in submission order:
\* schedule_next never returns B while a request A of the same tier that
\* was enqueued before B still waits in the local or the global queue.
C16_FifoWithinTier ==
  [][\A p \in Pods : \A b \in Requests :
       Dispatches(p, b)
         => \A a \in Pending(p) \ {b} :
              req[a].priority = req[b].priority => ~(a < b)]_vars

\* C17: a queued request of a higher tier is dispatched before any queued
\* request of a lower tier: schedule_next never returns a request while a
\* request of a higher tier, whose tier has in-flight capacity left,
\* waits in the queues.
C17_HigherTierFirst ==
  [][\A p \in Pods : \A r \in Requests :
       Dispatches(p, r)
         => \A q \in Pending(p) \ {r} :
              (TierInFlight(in_flight_requests[p], TenantTier(req[q].tenant_id))
                 < MaxCapacity(TenantTier(req[q].tenant_id)))
                => req[q].priority >= req[r].priority]_vars

C19_NoExpiredDispatch ==
  [][\A p \in Pods : \A r \in Requests :
       Dispatches(p, r) => now - req[r].submitted_at <= QUEUE_TIMEOUT_SEC]_vars

\* C20: the in-flight counts are decremented once when the processing of
\* a request ends, whether the callback returns or raises; hence whenever
\* all workers of a pod are idle its total_in_flight is 0 and its tenant
\* map is empty.
C20_IdleMeansNoneInFlight ==
  \A p \in Pods :
    (podpc[p].op = "idle" /\ \A w \in Workers : wstate[p][w] = "idle")
      => (total_in_flight[p] = 0 /\ DOMAIN in_flight_requests[p] = {})

\* C21: after AsyncWorkerPool.stop() is called no worker takes a new request
\* from the scheduler; a worker may finish its current item within the
\* grace period, and every item still outstanding when the grace period
\* ends is cancelled and placed in the DLQ.
C21_StopDrainsToDlq ==
  [][\A p \in Pods :
       /\ \A r \in Requests : Dispatches(p, r) => running[p]
       /\ \A r \in cancelled' \ cancelled : CountIn(dlq', r) > 0]_vars

\* C22: schedule_next returns None only when the queues are empty or
\* total in-flight has reached MAX_INFLIGHT_PER_POD.
C22_WorkConserving ==
  [][\A p \in Pods :
       (podpc[p].op = "tier" /\ podpc'[p].op = "idle" /\ dispatched' = dispatched)
         => (Pending(p) = {} \/ total_in_flight[p] >= MAX_INFLIGHT_PER_POD)]_vars

(***************************************************************************)
(* Claims on the RAG pipeline.                                             *)
(***************************************************************************)

\* A document whose content is text of another tenant than the one served.
Foreign(doc) == doc.content # rag_tenant
ForeignIn(docs) == \E i \in 1..Len(docs) : Foreign(docs[i])
CheckPassed == rag_pc \in {"llm", "done", "failed"} /\ rag_error # "injection"

\* C4: when a document of another tenant is among the retrieved documents,
\* the request is aborted with the cross-tenant-leakage error and the
\* leakage counter is incremented; no document of another tenant is in a
\* response.
C4_ForeignDocumentAborts ==
  /\ (CheckPassed /\ ForeignIn(rag_docs))
       => (rag_error = "cross_tenant_leakage" /\ leakage_attempts = 1)
  /\ ~ForeignIn(rag_response)

BreakerOf(site, tenant) ==
  LET states == tenant_states[SiteService(site)]
      key == BreakerKey(site, tenant)
  IN IF key \in DOMAIN states THEN states[key] ELSE NewBreaker

\* This step is an attempt that consults the breaker.
BreakerStep == res_call.op = "attempt" /\ ThroughBreaker(res_call) /\ res_call' # res_call

\* C6: once fail_max calls in a row through the breaker of a site and a
\* tenant have failed, and reset_timeout has not passed since, the breaker
\* is open and a further call does not reach the adapter.
C6_OpenAfterFailMax ==
  [][\A s \in Sites, t \in Tenants :
       (failed_calls[s][t] >= fail_max /\ failed_epoch[s][t] = res_epoch)
         => /\ BreakerOf(s, t).state = "open"
            /\ (BreakerStep /\ res_call.site = s /\ res_call.tenant = t)
                 => ~res_call'.invoked]_vars

\* C7: at every site, the calls for two different tenants use two
\* different breakers.
C7_BreakerPerTenant ==
  \A s \in Sites : \A a, b \in Tenants :
    (a # b /\ used_key[s][a] # None /\ used_key[s][b] # None)
      => used_key[s][a] # used_key[s][b]

\* C8: the call that finds an open breaker whose reset_timeout has passed
\* reaches the adapter; if it succeeds the breaker is closed with its
\* counter at 0, if it fails the breaker is open again and its timer
\* starts anew.
C8_ProbeDecides ==
  [][(BreakerStep /\ TimedOut(tenant_states[SiteService(res_call.site)][res_call.key],
                              res_epoch))
       => LET after == tenant_states'[SiteService(res_call.site)][res_call.key]
          IN /\ res_call'.invoked
             /\ res_call'.outcome = "ok" => (after.state = "closed" /\ after.counter = 0)
             /\ res_call'.outcome # "ok"
                  => (after.state = "open" /\ after.opened_at = res_epoch)]_vars

\* C9: a further attempt is made only after a transient failure.
C9_OnlyTransientRetried ==
  (res_call.op = "attempt" /\ res_call.attempt > 0) => res_call.error = "transient"

\* C10: no attempt begins after the deadline, and a call that fails after
\* the deadline fails with deadline_exceeded.
C10_DeadlineShared ==
  /\ res_call.op = "attempt" => res_call.elapsed <= Deadline
  /\ (res_call.op = "raised" /\ res_call.elapsed > Deadline)
       => res_call.error = "deadline_exceeded"

\* C11: a call makes at most max_attempts attempts, and the wait before
\* retry number k is min(max_wait, base x 2^(k-1)), base being one second;
\* no wait exceeds max_wait.
C11_BackoffCapped ==
  (res_call.op = "attempt" /\ res_call.attempt >= 1)
    => /\ res_call.attempt < res_call.budget
       /\ res_call.wait = Min(max_wait, 10 * (2 ^ (res_call.attempt - 1)))
       /\ res_call.wait <= max_wait

(***************************************************************************)
(* Claims on the token bucket.                                             *)
(***************************************************************************)

C13_BurstAdmitsBudget ==
  /\ burst_admitted <= burst_budget
  /\ last_result = "rate_limited" => burst_admitted = burst_budget

\* S2: 10 admitted of a burst on a full bucket of capacity 10, then, one
\* second later, 5 more and the next one rate limited.
C13_Witness ==
  /\ capacity = 10
  /\ refill_rate = 5
  /\ bucket_now = 10
  /\ total_admitted = 15
  /\ burst_admitted = 5
  /\ last_result = "rate_limited"

(***************************************************************************)
(* Claims on the cache.                                                    *)
(***************************************************************************)

\* The text str begins with the text prefix.
StartsWith(str, prefix) ==
  Len(str) >= Len(prefix) /\ SubSeq(str, 1, Len(prefix)) = prefix

\* C23: every key built for a tenant begins with "tenant_id:", hashed
\* keys included, and a value stored by one tenant is never returned by a
\* get of another tenant.
C23_TenantKeysDisjoint ==
  /\ \A t \in CacheTenants, k \in CacheKeyArgs :
       StartsWith(GetCacheKey(t, <<k>>), t \o <<":">>)
  /\ (cache_op.op = "get" /\ cache_op.result # <<>>)
       => cache_op.result = cache_op.tenant_id

\* C24: clear_tenant_cache(T) deletes every key stored for tenant T, leaves
\* the keys and values of every other tenant as they were, and returns the
\* number of keys of T it deleted.
C24_ClearOnlyTenant ==
  [][(cache_op'.op = "clear" /\ cache_op' # cache_op)
       => LET T == cache_op'.tenant_id
          IN /\ \A k \in DOMAIN cache_store :
                  IF cache_store[k] = T
                    THEN k \notin DOMAIN cache_store'
                    ELSE k \in DOMAIN cache_store' /\ cache_store'[k] = cache_store[k]
             /\ cache_op'.count =
                  Cardinality({k \in DOMAIN cache_store : cache_store[k] = T})]_vars

(***************************************************************************)
(* Claims on the prompt-injection screens.                                 *)
(***************************************************************************)

\* The catalogue of the specification, searched without regard to case.
InjectionCatalogue ==
  <<<<"i", "g", "n", "o", "r", "e">>,
    <<"d", "i", "s", "r", "e", "g", "a", "r", "d">>,
    <<"o", "v", "e", "r", "r", "i", "d", "e">>,
    <<"b", "y", "p", "a", "s", "s">>,
    <<"f", "o", "r", "g", "e", "t">>,
    <<"y", "o", "u", " ", "a", "r", "e", " ", "n", "o", "w">>,
    <<"a", "c", "t", " ", "a", "s">>>>

MatchesCatalogue(text) ==
  \E entry \in Range(InjectionCatalogue) : Contains(Lower(text), entry)

\* C25: a query that matches the injection catalogue, whatever its case,
\* is rejected by each screen on the way to the RAG pipeline (QueryRequest,
\* the detector, validate_prompt in generate_response); a query that
\* matches nothing of the catalogue is rejected by none.
C25_CatalogueScreened ==
  screen_result # NotScreened
    => IF MatchesCatalogue(screen_query)
         THEN /\ screen_result.request = "rejected"
              /\ screen_result.detector = "rejected"
              /\ screen_result.rag = "rejected"
         ELSE /\ screen_result.request = "passed"
              /\ screen_result.detector = "passed"
              /\ screen_result.rag = "passed"

\* The in-flight count of tenant t in map m, nought when t has no entry.
InFlightOf(m, t) == IF t \in DOMAIN m THEN m[t] ELSE 0

InFlightConsistent(p) ==
  /\ \A t \in DOMAIN in_flight_requests[p] : in_flight_requests[p][t] >= 1
  /\ total_in_flight[p] >= 0
  /\ total_in_flight[p] = SumCounts(in_flight_requests[p], DOMAIN in_flight_requests[p])

\* C28: a worker never decrements in-flight for a request it did not
\* increment before: no per-tenant count that is present in the map is
\* negative or zero, total_in_flight is never negative and equals the sum
\* of the per-tenant counts, and a count goes down by one only as a worker
\* finishes a request of that tenant that was dispatched to it.
C28_InFlightBookkeeping ==
  [][\A p \in Pods :
       /\ InFlightConsistent(p)
       /\ InFlightConsistent(p)'
       /\ \A t \in Tenants :
            InFlightOf(in_flight_requests'[p], t) < InFlightOf(in_flight_requests[p], t)
              => /\ InFlightOf(in_flight_requests'[p], t)
                      = InFlightOf(in_flight_requests[p], t) - 1
                 /\ total_in_flight'[p] = total_in_flight[p] - 1
                 /\ \E w \in Workers :
                      /\ wstate[p][w] = "busy"
                      /\ wstate'[p][w] = "idle"
                      /\ dispatched[wcur[p][w]] > 0
                      /\ req[wcur[p][w]].tenant_id = t]_vars

\* Two requests of one tenant were dispatched in pod1; one has completed and
\* the other is still with its worker.
C28_Witness ==
  \E r1, r2 \in Requests, w \in Workers :
    /\ r1 # r2
    /\ dispatched[r1] > 0 /\ dispatched[r2] > 0
    /\ req[r1].tenant_id = req[r2].tenant_id
    /\ wstate["pod1"][w] = "busy" /\ wcur["pod1"][w] = r1
    /\ \A v \in Workers : wstate["pod1"][v] = "busy" => wcur["pod1"][v] = r1
    /\ InFlightOf(in_flight_requests["pod1"], req[r1].tenant_id) = 1
    /\ total_in_flight["pod1"] = 1

\* The worker tasks of pod1 are scheduled fairly by the event loop: an idle
\* worker calls schedule_next again after its sleep, a schedule_next that
\* has begun runs to its return, and the processor callback of a busy
\* worker comes back, by returning or by raising.  A check_timeout that
\* has begun runs to its return; it has no caller that would run it
\* periodically, so nothing is assumed of its beginning.
WorkersFair ==
  /\ \A w \in SharedWorkers : WF_vars(SchedBegin("pod1", w))
  /\ WF_vars(SchedTier("pod1"))
  /\ WF_vars(SchedZrem("pod1"))
  /\ WF_vars(CheckTimeoutGlobal("pod1"))
  /\ \A w \in SharedWorkers : WF_vars(Complete("pod1", w) \/ Fail("pod1", w))

\* C30: with the workers scheduled fairly and every processor callback
\* coming back, every enqueued request eventually leaves the queues: it is
\* dispatched by schedule_next or moved to the DLQ.
C30_EveryRequestLeaves ==
  \A r \in Requests :
    (req[r] # NoReq) ~> (dispatched[r] > 0 \/ CountIn(dlq, r) > 0)

SourcesRead(env) ==
  {"environment", "aws_kms"} \cup Range(ENV_FILES(env))
    \cup (IF env = "production" THEN {"kubernetes_secret"} ELSE {})

\* C26: after load_settings, a key defined in several sources has the value
\* of the source that comes first in the documented order (environment
\* variables, cloud KMS, Kubernetes secrets, .env.{environment} files,
\* .env.example); an environment variable overrides a file value.
C26_HighestPriorityWins ==
  loaded =>
    \A key \in ConfigKeys :
      LET having == {source \in SourcesRead(loader_env) : <<source, key>> \in defined}
      IN having # {}
           => /\ key \in DOMAIN config
              /\ config[key] \in having
              /\ \A source \in having :
                   SOURCES_PRIORITY(source) <= SOURCES_PRIORITY(config[key])

(***************************************************************************)
(* Claims on the rate limit.                                               *)
(***************************************************************************)

\* The number of requests of a tenant that went downstream in the 60
\* seconds that end at current_time.
PassedInWindow(tenant_id, current_time) ==
  Cardinality({i \in DOMAIN passed[tenant_id] :
                 current_time - passed[tenant_id][i] < RATE_WINDOW_SEC})

\* Any requests_per_minute + 1 requests of one tenant that went downstream
\* span 60 seconds or more.
WindowBounded ==
  \A t \in RateTenants : \A i \in DOMAIN passed[t] :
    i + requests_per_minute \in DOMAIN passed[t]
      => passed[t][i + requests_per_minute] - passed[t][i] >= RATE_WINDOW_SEC

\* C29: per tenant id at most requests_per_minute requests go downstream in
\* any 60-second window and every other request is answered 429 without the
\* downstream handler being called; a rejected request is not recorded in
\* the window; the traffic of one tenant does not change the verdict for a
\* request of another tenant.
C29_RateLimitPerTenant ==
  [][/\ WindowBounded /\ WindowBounded'
     /\ \A t \in RateTenants :
          (rate_now' = rate_now /\ rate_response'.tenant_id = t /\ rateVars' # rateVars)
            => /\ (rate_response'.status_code = 429)
                    = (PassedInWindow(t, rate_now) >= requests_per_minute)
               /\ rate_response'.status_code = 429
                    => /\ passed' = passed
                       /\ Len(request_counts'[t]) = PassedInWindow(t, rate_now)
               /\ rate_response'.status_code # 429
                    => /\ passed'[t] = Append(passed[t], rate_now)
                       /\ Len(request_counts'[t]) = PassedInWindow(t, rate_now) + 1
               /\ \A u \in RateTenants \ {t} :
                    /\ passed'[u] = passed[u]
                    /\ u \in DOMAIN request_counts => request_counts'[u] = request_counts[u]]_vars

\* Over time requests_per_minute + 1 requests of tenant A went downstream, a
\* request of tenant B went downstream in the second in which A reached its
\* limit, and the last request of A was answered 429.
C29_Witness ==
  /\ Len(passed["A"]) = requests_per_minute + 1
  /\ Len(passed["B"]) >= 1
  /\ \E i \in DOMAIN passed["B"] : passed["B"][i] = passed["A"][requests_per_minute]
  /\ rate_response = [tenant_id |-> "A", status_code |-> 429, at |-> rate_now]

InitParts == InitSched /\ InitRag /\ InitRes /\ InitBucket /\ InitCache /\ InitScreen
Init == InitParts /\ InitConfig /\ InitRate
Next == NextSched
Spec == Init /\ [][Next]_vars
SpecPod == Init /\ [][NextPod]_vars
SpecSweep == Init /\ [][NextSweep]_vars
SpecStop == Init /\ [][NextStop]_vars
SpecLive == Init /\ [][NextSweep]_vars /\ WorkersFair
SpecRag == Init /\ [][NextRag]_vars
SpecRes == Init /\ [][NextRes]_vars
SpecRetry == Init /\ [][NextRetry]_vars
SpecBucket == Init /\ [][NextBucket]_vars
SpecBurst == Init /\ [][NextBurst]_vars
SpecCache == Init /\ [][NextCache]_vars
SpecScreen == Init /\ [][NextScreen]_vars
SpecConfig == Init /\ [][NextConfig]_vars
SpecRate == Init /\ [][NextRate]_vars

====
